---- MODULE Spec2Model ----
(***************************************************************************)
(* A model of the filter-expression compiler of github-search-syntax:      *)
(* parse(filter) = visitor.visit(parser.statements(lexer.tokenize(filter))) *)
(* The lexer, the recursive-descent parser (with its two-token lookahead   *)
(* and its error recovery) and the CST visitor are operators over strings, *)
(* token sequences and CST nodes; the state machine runs one call of parse *)
(* through its three steps.                                                *)
(***************************************************************************)
EXTENDS Integers, Sequences, FiniteSets, TLC

VARIABLES filter, pc, tokens, cst, result

vars == <<filter, pc, tokens, cst, result>>

(***************************************************************************)
(* Characters.  A string is indexed from 1; Char(s, i) is its i-th         *)
(* character as a one-character string.                                    *)
(***************************************************************************)
Char(s, i) == SubSeq(s, i, i)

Digits == {"0", "1", "2", "3", "4", "5", "6", "7", "8", "9"}

\* [a-zA-Z_]
IdStart ==
  {"a", "b", "c", "d", "e", "f", "g", "h", "i", "j", "k", "l", "m",
   "n", "o", "p", "q", "r", "s", "t", "u", "v", "w", "x", "y", "z",
   "A", "B", "C", "D", "E", "F", "G", "H", "I", "J", "K", "L", "M",
   "N", "O", "P", "Q", "R", "S", "T", "U", "V", "W", "X", "Y", "Z", "_"}

\* [a-zA-Z0-9_]
IdPart == IdStart \cup Digits

\* \s
WhiteSpace == {" ", "\t", "\n", "\r", "\f"}

\* the characters a regular expression's . does not match
LineTerminators == {"\n", "\r"}

\* the characters JSON.parse refuses unescaped inside a string literal
ControlChars == {"\t", "\n", "\r", "\f"}

\* [\s:\.] : what a backslash may escape inside a Term
TermEscapable == WhiteSpace \cup {":", "."}

\* the complement of [^\\\s:\.]
TermStop == {"\\"} \cup TermEscapable

DigitValue(c) ==
  CASE c = "0" -> 0 [] c = "1" -> 1 [] c = "2" -> 2 [] c = "3" -> 3
    [] c = "4" -> 4 [] c = "5" -> 5 [] c = "6" -> 6 [] c = "7" -> 7
    [] c = "8" -> 8 [] c = "9" -> 9

(***************************************************************************)
(* The token patterns.  Each operator gives the length of the pattern's    *)
(* match at offset i of s, 0 when it does not match there (no pattern      *)
(* matches the empty string).                                              *)
(***************************************************************************)
RECURSIVE Run(_, _, _)
\* the length of the longest run of characters of class at offset i
Run(s, i, class) ==
  IF i <= Len(s) /\ Char(s, i) \in class THEN 1 + Run(s, i + 1, class) ELSE 0

\* whether exactly n digits stand at offset i
DigitsAt(s, i, n) == i + n - 1 <= Len(s) /\ \A k \in i .. (i + n - 1) : Char(s, k) \in Digits

\* whether the literal text lit stands at offset i
LitAt(s, i, lit) == i + Len(lit) - 1 <= Len(s) /\ SubSeq(s, i, i + Len(lit) - 1) = lit

\* SP: /\s+/
SPLen(s, i) == Run(s, i, WhiteSpace)

RECURSIVE TermLen(_, _)
\* Term: /(?:[^\\\s:\.]|\\[\s:\.])+/
TermLen(s, i) ==
  IF i > Len(s) THEN 0
  ELSE IF Char(s, i) \notin TermStop THEN 1 + TermLen(s, i + 1)
  ELSE IF Char(s, i) = "\\" /\ i + 1 <= Len(s) /\ Char(s, i + 1) \in TermEscapable
       THEN 2 + TermLen(s, i + 2)
  ELSE 0

\* Not: /NOT/
NotLen(s, i) == IF LitAt(s, i, "NOT") THEN 3 ELSE 0

\* Minus: /-/
MinusLen(s, i) == IF LitAt(s, i, "-") THEN 1 ELSE 0

\* ID: /[a-zA-Z_]+[a-zA-Z0-9_]*/
IDLen(s, i) ==
  IF i <= Len(s) /\ Char(s, i) \in IdStart THEN Run(s, i, IdPart) ELSE 0

\* EQ, GT, GTE, LT, LTE: /:/, /:>/, /:>=/, /:</, /:<=/
EQLen(s, i) == IF LitAt(s, i, ":") THEN 1 ELSE 0
GTLen(s, i) == IF LitAt(s, i, ":>") THEN 2 ELSE 0
GTELen(s, i) == IF LitAt(s, i, ":>=") THEN 3 ELSE 0
LTLen(s, i) == IF LitAt(s, i, ":<") THEN 2 ELSE 0
LTELen(s, i) == IF LitAt(s, i, ":<=") THEN 3 ELSE 0

\* the optional time part: T\d{2}:\d{2}:\d{2}(?:Z|\+\d{2}:\d{2})
TimeLen(s, i) ==
  IF /\ LitAt(s, i, "T") /\ DigitsAt(s, i + 1, 2)
     /\ LitAt(s, i + 3, ":") /\ DigitsAt(s, i + 4, 2)
     /\ LitAt(s, i + 6, ":") /\ DigitsAt(s, i + 7, 2)
  THEN IF LitAt(s, i + 9, "Z") THEN 10
       ELSE IF /\ LitAt(s, i + 9, "+") /\ DigitsAt(s, i + 10, 2)
               /\ LitAt(s, i + 12, ":") /\ DigitsAt(s, i + 13, 2)
            THEN 15
       ELSE 0
  ELSE 0

\* DateLiteral: /\d{4}-\d{2}-\d{2}(?:T\d{2}:\d{2}:\d{2}(?:Z|\+\d{2}:\d{2}))?/
DateLiteralLen(s, i) ==
  IF /\ DigitsAt(s, i, 4) /\ LitAt(s, i + 4, "-")
     /\ DigitsAt(s, i + 5, 2) /\ LitAt(s, i + 7, "-") /\ DigitsAt(s, i + 8, 2)
  THEN 10 + TimeLen(s, i + 10)
  ELSE 0

\* NumberLiteral: /\d+(?:\.\d+)?/
NumberLiteralLen(s, i) ==
  LET n == Run(s, i, Digits) IN
  IF n = 0 THEN 0
  ELSE IF LitAt(s, i + n, ".") /\ Run(s, i + n + 1, Digits) > 0
       THEN n + 1 + Run(s, i + n + 1, Digits)
  ELSE n

\* DoubleDot: /\.\./        Star: /\*/
DoubleDotLen(s, i) == IF LitAt(s, i, "..") THEN 2 ELSE 0
StarLen(s, i) == IF LitAt(s, i, "*") THEN 1 ELSE 0

RECURSIVE QuotedBodyLen(_, _)
\* ([^"\\]|\\")*" from offset i: the length up to and including the closing
\* quote, 0 when the text does not close
QuotedBodyLen(s, i) ==
  IF i > Len(s) THEN 0
  ELSE IF Char(s, i) = "\"" THEN 1
  ELSE IF Char(s, i) # "\\"
       THEN (LET r == QuotedBodyLen(s, i + 1) IN IF r = 0 THEN 0 ELSE 1 + r)
  ELSE IF LitAt(s, i, "\\\"")
       THEN (LET r == QuotedBodyLen(s, i + 2) IN IF r = 0 THEN 0 ELSE 2 + r)
  ELSE 0

\* QuotedTerm: /"([^"\\]|\\")*"/
QuotedTermLen(s, i) ==
  IF LitAt(s, i, "\"")
  THEN (LET r == QuotedBodyLen(s, i + 1) IN IF r = 0 THEN 0 ELSE 1 + r)
  ELSE 0

\* a token list that tries the bare equals before the relational operators
tokenOrderEqualsFirst ==
  <<"SP", "Not", "Minus", "ID", "EQ", "GTE", "GT", "LTE", "LT", "DoubleDot",
    "Star", "DateLiteral", "NumberLiteral", "QuotedTerm", "Term">>

\* the token list, in the lexer's priority order
tokenOrder ==
  <<"SP", "Not", "Minus", "ID", "GTE", "GT", "LTE", "LT", "EQ", "DoubleDot",
    "Star", "DateLiteral", "NumberLiteral", "QuotedTerm", "Term">>

PatternLen(name, s, i) ==
  CASE name = "SP" -> SPLen(s, i)
    [] name = "Not" -> NotLen(s, i)
    [] name = "Minus" -> MinusLen(s, i)
    [] name = "ID" -> IDLen(s, i)
    [] name = "GTE" -> GTELen(s, i)
    [] name = "GT" -> GTLen(s, i)
    [] name = "LTE" -> LTELen(s, i)
    [] name = "LT" -> LTLen(s, i)
    [] name = "EQ" -> EQLen(s, i)
    [] name = "DoubleDot" -> DoubleDotLen(s, i)
    [] name = "Star" -> StarLen(s, i)
    [] name = "DateLiteral" -> DateLiteralLen(s, i)
    [] name = "NumberLiteral" -> NumberLiteralLen(s, i)
    [] name = "QuotedTerm" -> QuotedTermLen(s, i)
    [] name = "Term" -> TermLen(s, i)

\* a keyword NOT declared without its longer alternative
HasLongerAltButNot(name) == name \in {"ID", "DateLiteral", "NumberLiteral"}

\* the token types declared with longer_alt: Term
HasLongerAlt(name) == name \in {"Not", "ID", "DateLiteral", "NumberLiteral"}

\* the token types of group Lexer.SKIPPED
Skipped(name) == name = "SP"

RECURSIVE FirstMatch(_, _, _)
\* the index in tokenOrder of the first pattern, from index k on, that
\* matches at offset i; 0 when none does
FirstMatch(s, i, k) ==
  IF k > Len(tokenOrder) THEN 0
  ELSE IF PatternLen(tokenOrder[k], s, i) > 0 THEN k
  ELSE FirstMatch(s, i, k + 1)

\* the token the lexer produces at offset i: the first matching pattern, or
\* its longer alternative when that one matches more text
MatchAt(s, i) ==
  LET k == FirstMatch(s, i, 1) IN
  IF k = 0 THEN [tokenType |-> "none", len |-> 0]
  ELSE LET name == tokenOrder[k]
           n == PatternLen(name, s, i)
       IN IF HasLongerAlt(name) /\ TermLen(s, i) > n
          THEN [tokenType |-> "Term", len |-> TermLen(s, i)]
          ELSE [tokenType |-> name, len |-> n]

Token(type, image, offset) ==
  [tokenType |-> type, image |-> image, startOffset |-> offset]

RECURSIVE LexFrom(_, _)

\* the lexer's step at offset i, where the match is m: skipped tokens are not
\* emitted, and a character no pattern matches is dropped (a lexing error,
\* not an exception)
LexNext(s, i, m) ==
  IF m.len = 0 THEN LexFrom(s, i + 1)
  ELSE IF Skipped(m.tokenType) THEN LexFrom(s, i + m.len)
  ELSE <<Token(m.tokenType, SubSeq(s, i, i + m.len - 1), i - 1)>> \o LexFrom(s, i + m.len)

\* lexer.tokenize from offset i
LexFrom(s, i) == IF i > Len(s) THEN <<>> ELSE LexNext(s, i, MatchAt(s, i))

tokenize(text) == LexFrom(text, 1)

(***************************************************************************)
(* The parser: a CstParser over the token list with recoveryEnabled.  A    *)
(* CST node is [name, children, recoveredNode]; children maps a rule or    *)
(* token name to the sequence of the nodes or tokens matched under it, and *)
(* holds a key only when that sequence is not empty.  A position i is the  *)
(* index of the next token, from 1.                                        *)
(***************************************************************************)
EOF == "EOF"

\* the type of the k-th token of lookahead at position i
LA(toks, i, k) == IF i + k - 1 <= Len(toks) THEN toks[i + k - 1].tokenType ELSE EOF

Node(name, children) == [name |-> name, children |-> children, recoveredNode |-> FALSE]

NoChildren == <<>>

\* children with v added under key
AddChild(ctx, key, v) ==
  [k \in DOMAIN ctx \cup {key} |->
     IF k = key THEN (IF key \in DOMAIN ctx THEN Append(ctx[key], v) ELSE <<v>>)
     ELSE ctx[k]]

WithChild(node, key, v) == [node EXCEPT !.children = AddChild(node.children, key, v)]

\* the outcome of a rule's invocation: its (possibly partial) node, the
\* position it leaves the parser at, and whether its exception propagates
Returned(node, i) == [node |-> node, idx |-> i, thrown |-> FALSE]
Thrown(node, i) == [node |-> [node EXCEPT !.recoveredNode = TRUE], idx |-> i, thrown |-> TRUE]

\* the first sets of the grammar's rules
FirstComparable == {"NumberLiteral", "DateLiteral"}
FirstTerm == {"ID", "DateLiteral", "NumberLiteral", "Term", "QuotedTerm"}
FirstRange == FirstComparable \cup {"Star"}
CompareOps == {"GT", "GTE", "LT", "LTE"}
FirstStatement == {"Not", "Minus"} \cup FirstTerm

\* The re-sync follow sets: for each SUBRULE call, the tokens that can come
\* right after it inside the calling rule.
FollowTop == {EOF}
FollowStatementInStatements == FirstStatement
FollowIdentifierInField == {"EQ"}
FollowIdentifierInCompare == CompareOps
FollowComparableInRangeLeft == {"DoubleDot"}
FollowNone == {}

FlatFollow(stack) == UNION {stack[k] : k \in 1 .. Len(stack)}

RECURSIVE FindReSyncTokenType(_, _, _)
\* the type of the first token, from position i on, that some rule of the
\* rule stack can be followed by (EOF is in the top rule's follow set)
FindReSyncTokenType(toks, i, flat) ==
  IF LA(toks, i, 1) \in flat THEN LA(toks, i, 1)
  ELSE FindReSyncTokenType(toks, i + 1, flat)

RECURSIVE ReSyncTo(_, _, _)
\* skip tokens up to the first of the given types
ReSyncTo(toks, i, types) ==
  IF LA(toks, i, 1) \in types THEN i ELSE ReSyncTo(toks, i + 1, types)

\* A recognition exception raised in a rule at position i: the rule re-syncs
\* and returns its partial node when the re-sync token is in its own follow
\* set (the last of the stack); otherwise the exception goes to its caller,
\* carrying the partial node.
InvokeRuleCatch(toks, node, i, stack) ==
  LET t == FindReSyncTokenType(toks, i, FlatFollow(stack)) IN
  IF t \in stack[Len(stack)]
  THEN Returned([node EXCEPT !.recoveredNode = TRUE], ReSyncTo(toks, i, {t}))
  ELSE Thrown(node, i)

InsertedToken(type) == [tokenType |-> type, image |-> "", startOffset |-> -1, isInsertedInRecovery |-> TRUE]

\* CONSUME(type) with in-rule recovery: the expected token is consumed; else
\* it is inserted when the next token may follow it; else the next token is
\* deleted when the one after it is the expected one; else the mismatch is
\* an exception.  follows: the token types that may come after the token.
Consume(toks, i, type, follows) ==
  IF LA(toks, i, 1) = type THEN [tok |-> toks[i], idx |-> i + 1, ok |-> TRUE]
  ELSE IF LA(toks, i, 1) \in follows
       THEN [tok |-> InsertedToken(type), idx |-> i, ok |-> TRUE]
  ELSE IF LA(toks, i, 2) = type THEN [tok |-> toks[i + 1], idx |-> i + 2, ok |-> TRUE]
  ELSE [tok |-> InsertedToken(type), idx |-> i, ok |-> FALSE]

\* SUBRULE as the last element of a rule: the subrule's node, partial or not,
\* is added under key; the subrule's exception is raised in the rule itself
Sub(toks, node, key, r, stack) ==
  IF r.thrown THEN InvokeRuleCatch(toks, WithChild(node, key, r.node), r.idx, stack)
  ELSE Returned(WithChild(node, key, r.node), r.idx)

\* identifier := ID
identifier(toks, i, stack, follows) ==
  LET n == Node("identifier", NoChildren)
      c == Consume(toks, i, "ID", follows)
  IN IF c.ok THEN Returned(WithChild(n, "ID", c.tok), c.idx)
     ELSE InvokeRuleCatch(toks, n, i, stack)

\* comparable := NumberLiteral | DateLiteral
comparable(toks, i, stack) ==
  LET n == Node("comparable", NoChildren) IN
  IF LA(toks, i, 1) = "NumberLiteral" THEN Returned(WithChild(n, "NumberLiteral", toks[i]), i + 1)
  ELSE IF LA(toks, i, 1) = "DateLiteral" THEN Returned(WithChild(n, "DateLiteral", toks[i]), i + 1)
  ELSE InvokeRuleCatch(toks, n, i, stack)

\* term := identifier | DateLiteral | NumberLiteral | Term | QuotedTerm
term(toks, i, stack) ==
  LET n == Node("term", NoChildren)
      la == LA(toks, i, 1)
  IN IF la = "ID"
     THEN Sub(toks, n, "identifier",
              identifier(toks, i, stack \o <<FollowNone>>, FirstStatement), stack)
     ELSE IF la \in {"DateLiteral", "NumberLiteral", "Term", "QuotedTerm"}
          THEN Returned(WithChild(n, la, toks[i]), i + 1)
     ELSE InvokeRuleCatch(toks, n, i, stack)

\* rangeLeft from its ".." on; r1 is the outcome of its first comparable
rangeLeftRest(toks, r1, stack) ==
  LET n1 == WithChild(Node("rangeLeft", NoChildren), "comparable", r1.node)
      c == Consume(toks, r1.idx, "DoubleDot", FirstComparable \cup {"Star"})
      n2 == WithChild(n1, "DoubleDot", c.tok)
  IN IF r1.thrown \/ ~c.ok THEN InvokeRuleCatch(toks, n1, r1.idx, stack)
     ELSE IF LA(toks, c.idx, 1) = "Star"
          THEN Returned(WithChild(n2, "Star", toks[c.idx]), c.idx + 1)
     ELSE IF LA(toks, c.idx, 1) \in FirstComparable
          THEN Sub(toks, n2, "comparable",
                   comparable(toks, c.idx, stack \o <<FollowNone>>), stack)
     ELSE InvokeRuleCatch(toks, n2, c.idx, stack)

\* rangeLeft := comparable ".." ("*" | comparable)
rangeLeft(toks, i, stack) ==
  rangeLeftRest(toks, comparable(toks, i, stack \o <<FollowComparableInRangeLeft>>), stack)

\* rangeRight := "*" ".." comparable
rangeRight(toks, i, stack) ==
  LET n == Node("rangeRight", NoChildren)
      c1 == Consume(toks, i, "Star", {"DoubleDot"})
      n1 == WithChild(n, "Star", c1.tok)
  IN IF ~c1.ok THEN InvokeRuleCatch(toks, n, i, stack)
     ELSE LET c2 == Consume(toks, c1.idx, "DoubleDot", FirstComparable)
              n2 == WithChild(n1, "DoubleDot", c2.tok)
          IN IF ~c2.ok THEN InvokeRuleCatch(toks, n1, c1.idx, stack)
             ELSE Sub(toks, n2, "comparable",
                      comparable(toks, c2.idx, stack \o <<FollowNone>>), stack)

\* range := rangeLeft | rangeRight
range(toks, i, stack) ==
  LET n == Node("range", NoChildren)
      la == LA(toks, i, 1)
  IN IF la \in FirstComparable
     THEN Sub(toks, n, "rangeLeft", rangeLeft(toks, i, stack \o <<FollowNone>>), stack)
     ELSE IF la = "Star"
          THEN Sub(toks, n, "rangeRight", rangeRight(toks, i, stack \o <<FollowNone>>), stack)
     ELSE InvokeRuleCatch(toks, n, i, stack)

\* The lookahead of fieldStatement's OR: range when the next token is "*",
\* or a comparable followed by ".."; term on any first token of term.
FieldValueAlt(toks, i) ==
  IF LA(toks, i, 1) = "Star" THEN "range"
  ELSE IF LA(toks, i, 1) \in FirstComparable /\ LA(toks, i, 2) = "DoubleDot" THEN "range"
  ELSE IF LA(toks, i, 1) \in FirstTerm THEN "term"
  ELSE "none"

\* fieldStatement from its ":" on; r1 is the outcome of its identifier
fieldStatementRest(toks, r1, stack) ==
  LET n1 == WithChild(Node("fieldStatement", NoChildren), "identifier", r1.node)
      c == Consume(toks, r1.idx, "EQ", FirstRange \cup FirstTerm)
      n2 == WithChild(n1, "EQ", c.tok)
      alt == FieldValueAlt(toks, c.idx)
  IN IF r1.thrown \/ ~c.ok THEN InvokeRuleCatch(toks, n1, r1.idx, stack)
     ELSE IF alt = "range"
          THEN Sub(toks, n2, "range", range(toks, c.idx, stack \o <<FollowNone>>), stack)
     ELSE IF alt = "term"
          THEN Sub(toks, n2, "term", term(toks, c.idx, stack \o <<FollowNone>>), stack)
     ELSE InvokeRuleCatch(toks, n2, c.idx, stack)

\* fieldStatement := identifier ":" (range | term)
fieldStatement(toks, i, stack) ==
  fieldStatementRest(toks,
    identifier(toks, i, stack \o <<FollowIdentifierInField>>, {"EQ"}), stack)

\* compareStatement from its operator on; r1 is the outcome of its identifier
compareStatementRest(toks, r1, stack) ==
  LET n1 == WithChild(Node("compareStatement", NoChildren), "identifier", r1.node)
      n2 == WithChild(n1, LA(toks, r1.idx, 1), toks[r1.idx])
  IN IF r1.thrown \/ LA(toks, r1.idx, 1) \notin CompareOps
     THEN InvokeRuleCatch(toks, n1, r1.idx, stack)
     ELSE Sub(toks, n2, "comparable",
              comparable(toks, r1.idx + 1, stack \o <<FollowNone>>), stack)

\* compareStatement := identifier (":>" | ":>=" | ":<" | ":<=") comparable
compareStatement(toks, i, stack) ==
  compareStatementRest(toks,
    identifier(toks, i, stack \o <<FollowIdentifierInCompare>>, CompareOps), stack)

\* The lookahead of statement's OR.  The alternatives are told apart by two
\* tokens: an ID is a fieldStatement before ":", a compareStatement before a
\* relational operator, and a term otherwise.
StatementAlt(toks, i) ==
  IF LA(toks, i, 1) \in {"Not", "Minus"} THEN "negativeStatement"
  ELSE IF LA(toks, i, 1) = "ID" /\ LA(toks, i, 2) = "EQ" THEN "fieldStatement"
  ELSE IF LA(toks, i, 1) = "ID" /\ LA(toks, i, 2) \in CompareOps THEN "compareStatement"
  ELSE IF LA(toks, i, 1) \in FirstTerm THEN "term"
  ELSE "none"

RECURSIVE statement(_, _, _)
RECURSIVE negativeStatement(_, _, _)

\* statement := negativeStatement | fieldStatement | compareStatement | term
statement(toks, i, stack) ==
  LET n == Node("statement", NoChildren)
      alt == StatementAlt(toks, i)
  IN IF alt = "none" THEN InvokeRuleCatch(toks, n, i, stack)
     ELSE Sub(toks, n, alt,
              CASE alt = "negativeStatement" -> negativeStatement(toks, i, stack \o <<FollowNone>>)
                [] alt = "fieldStatement" -> fieldStatement(toks, i, stack \o <<FollowNone>>)
                [] alt = "compareStatement" -> compareStatement(toks, i, stack \o <<FollowNone>>)
                [] alt = "term" -> term(toks, i, stack \o <<FollowNone>>),
              stack)

\* negativeStatement := ("NOT" | "-") statement
negativeStatement(toks, i, stack) ==
  LET n == Node("negativeStatement", NoChildren) IN
  IF LA(toks, i, 1) \notin {"Not", "Minus"} THEN InvokeRuleCatch(toks, n, i, stack)
  ELSE Sub(toks, WithChild(n, LA(toks, i, 1), toks[i]), "statement",
           statement(toks, i + 1, stack \o <<FollowNone>>), stack)

RECURSIVE manyStatements(_, _, _)

\* MANY(statement) after an iteration, whose statement had outcome r: the
\* next iteration, or the top rule's re-sync when the exception reaches it
manyStatementsNext(toks, node, r) ==
  IF r.thrown
  THEN InvokeRuleCatch(toks, WithChild(node, "statement", r.node), r.idx, <<FollowTop>>)
  ELSE manyStatements(toks, WithChild(node, "statement", r.node), r.idx)

\* MANY(statement) of the top rule: iterate while the next token starts a
\* statement.  When it does not, and is not the end of the input, the
\* in-repetition recovery skips tokens up to the next token that starts a
\* statement and iterates again, or up to the end of the input; it is not
\* tried when deleting the single next token would reach the end.
manyStatements(toks, node, i) ==
  IF LA(toks, i, 1) \in FirstStatement
  THEN manyStatementsNext(toks, node,
                          statement(toks, i, <<FollowTop, FollowStatementInStatements>>))
  ELSE IF LA(toks, i, 1) = EOF \/ LA(toks, i, 2) = EOF THEN Returned(node, i)
  ELSE LET j == ReSyncTo(toks, i, FirstStatement \cup {EOF}) IN
       IF LA(toks, j, 1) = EOF THEN Returned(node, j)
       ELSE manyStatements(toks, node, j)

\* statements := statement*      (the rule parse() invokes)
statements(toks) == manyStatements(toks, Node("statements", NoChildren), 1).node

(***************************************************************************)
(* JavaScript values.  A string, a number, a Date and undefined are tagged *)
(* records; a clause (or the {from, to} pair of a range) is a record       *)
(* holding exactly the properties the object has; an exception a visitor   *)
(* method raises is a value that every caller passes on.                   *)
(***************************************************************************)
Str(s) == [t |-> "string", v |-> s]
Undefined == [t |-> "undefined"]
Throw(e) == [t |-> "throw", error |-> e]
IsThrow(v) == "t" \in DOMAIN v /\ v.t = "throw"
IsUndefined(v) == "t" \in DOMAIN v /\ v.t = "undefined"

\* obj with property k set to v / deleted
SetProp(obj, k, v) == [p \in DOMAIN obj \cup {k} |-> IF p = k THEN v ELSE obj[p]]
DeleteProp(obj, k) == [p \in DOMAIN obj \ {k} |-> obj[p]]
\* obj.k, undefined when the object has no such property
GetProp(obj, k) == IF k \in DOMAIN obj THEN obj[k] ELSE Undefined

RECURSIVE DigitsToInt(_, _)
\* the value of the first n characters of the digit string s
DigitsToInt(s, n) ==
  IF n = 0 THEN 0 ELSE 10 * DigitsToInt(s, n - 1) + DigitValue(Char(s, n))

RECURSIVE Pow10(_)
Pow10(k) == IF k = 0 THEN 1 ELSE 10 * Pow10(k - 1)

RECURSIVE Reduce10(_, _)
\* num / den with den a power of ten, in lowest power-of-ten terms
Reduce10(num, den) ==
  IF den > 1 /\ num % 10 = 0 THEN Reduce10(num \div 10, den \div 10)
  ELSE [t |-> "number", num |-> num, den |-> den]

\* Number(image) of an image \d+(\.\d+)? (and of the empty image, 0)
ToNumber(image) ==
  LET n == Run(image, 1, Digits)
      f == Len(image) - n - 1
  IN IF n = Len(image) THEN Reduce10(DigitsToInt(image, n), 1)
     ELSE Reduce10(DigitsToInt(image, n) * Pow10(f)
                     + DigitsToInt(SubSeq(image, n + 2, Len(image)), f), Pow10(f))

\* new Date(image) of an image YYYY-MM-DD with an optional THH:MM:SS and Z
\* or +HH:MM: its fields as numbers, the offset in minutes; valid is FALSE
\* for an Invalid Date (a month or day no calendar has, an hour past 24).
NewDate(image) ==
  LET num(a, b) == DigitsToInt(SubSeq(image, a, b), b - a + 1)
      hasTime == Len(image) > 10
      hasOffset == Len(image) > 20
      month == num(6, 7)
      day == num(9, 10)
      hour == IF hasTime THEN num(12, 13) ELSE 0
      minute == IF hasTime THEN num(15, 16) ELSE 0
      second == IF hasTime THEN num(18, 19) ELSE 0
      offset == IF hasOffset THEN 60 * num(21, 22) + num(24, 25) ELSE 0
  IN [t |-> "date",
      valid |-> /\ Len(image) >= 10
                /\ month \in 1 .. 12 /\ day \in 1 .. 31
                /\ hour <= 24 /\ minute <= 59 /\ second <= 59,
      year |-> num(1, 4), month |-> month, day |-> day,
      hour |-> hour, minute |-> minute, second |-> second, offset |-> offset]

\* the truthiness of a value: !v is its negation
Truthy(v) ==
  CASE v.t = "undefined" -> FALSE
    [] v.t = "number" -> v.num # 0
    [] v.t = "string" -> v.v # ""
    [] v.t = "date" -> TRUE

RECURSIVE EscapeFrom(_, _)
EscapeFrom(text, i) ==
  IF i > Len(text) THEN ""
  ELSE IF Char(text, i) = "\\" /\ i + 1 <= Len(text) /\ Char(text, i + 1) \notin LineTerminators
       THEN Char(text, i + 1) \o EscapeFrom(text, i + 2)
  ELSE Char(text, i) \o EscapeFrom(text, i + 1)

\* text.replace(/\\(.)/g, '$1')
escapeTerm(text) == EscapeFrom(text, 1)

RECURSIVE JsonBody(_, _)
\* the string the JSON literal's body denotes up to its closing quote: "" is
\* returned with ok = FALSE at a character JSON does not allow in a string
JsonBody(image, i) ==
  IF i >= Len(image) THEN [ok |-> TRUE, v |-> ""]
  ELSE IF Char(image, i) \in ControlChars THEN [ok |-> FALSE, v |-> ""]
  ELSE IF Char(image, i) = "\\"
       THEN (LET r == JsonBody(image, i + 2) IN
             IF i + 1 < Len(image) /\ Char(image, i + 1) = "\"" /\ r.ok
             THEN [ok |-> TRUE, v |-> "\"" \o r.v] ELSE [ok |-> FALSE, v |-> ""])
  ELSE (LET r == JsonBody(image, i + 1) IN
        IF r.ok THEN [ok |-> TRUE, v |-> Char(image, i) \o r.v] ELSE r)

\* JSON.parse(image) of a QuotedTerm image
JSONparse(image) ==
  LET r == JsonBody(image, 2) IN
  IF Len(image) >= 2 /\ Char(image, 1) = "\"" /\ Char(image, Len(image)) = "\"" /\ r.ok
  THEN Str(r.v) ELSE Throw("SyntaxError")

(***************************************************************************)
(* The visitor.  Each method takes the children of its node; visit of an   *)
(* array visits its first element and visit of undefined is undefined.     *)
(***************************************************************************)
Has(ctx, k) == k \in DOMAIN ctx

FilterTypeTerm == 1
FilterTypeField == 2
FilterTypeGT == 3
FilterTypeGTE == 4
FilterTypeLT == 5
FilterTypeLTE == 6
FilterTypeRange == 7

visitIdentifier(ctx) ==
  IF Has(ctx, "ID") THEN Str(ctx.ID[1].image) ELSE Throw("TypeError")

\* a comparable resolved like a term: its source text
visitComparableAsText(ctx) ==
  IF Has(ctx, "NumberLiteral") THEN Str(ctx.NumberLiteral[1].image)
  ELSE IF Has(ctx, "DateLiteral") THEN Str(ctx.DateLiteral[1].image)
  ELSE Undefined

visitComparable(ctx) ==
  IF Has(ctx, "NumberLiteral") THEN ToNumber(ctx.NumberLiteral[1].image)
  ELSE IF Has(ctx, "DateLiteral") THEN NewDate(ctx.DateLiteral[1].image)
  ELSE Undefined

visitTerm(ctx) ==
  IF Has(ctx, "identifier") THEN visitIdentifier(ctx.identifier[1].children)
  ELSE IF Has(ctx, "NumberLiteral") THEN Str(ctx.NumberLiteral[1].image)
  ELSE IF Has(ctx, "DateLiteral") THEN Str(ctx.DateLiteral[1].image)
  ELSE IF Has(ctx, "Term") THEN Str(escapeTerm(ctx.Term[1].image))
  ELSE IF Has(ctx, "QuotedTerm") THEN JSONparse(ctx.QuotedTerm[1].image)
  ELSE Undefined

visitRangeLeft(ctx) ==
  IF ~Has(ctx, "comparable") THEN Throw("TypeError")
  ELSE [from |-> visitComparable(ctx.comparable[1].children),
        to |-> IF Len(ctx.comparable) >= 2
               THEN visitComparable(ctx.comparable[2].children)
               ELSE Undefined]

visitRangeRight(ctx) ==
  IF ~Has(ctx, "comparable") THEN Throw("TypeError")
  ELSE [to |-> visitComparable(ctx.comparable[1].children)]

visitRange(ctx) ==
  IF Has(ctx, "rangeLeft") THEN visitRangeLeft(ctx.rangeLeft[1].children)
  ELSE IF Has(ctx, "rangeRight") THEN visitRangeRight(ctx.rangeRight[1].children)
  ELSE Undefined

visitFieldStatement(ctx) ==
  LET field == IF Has(ctx, "identifier") THEN visitIdentifier(ctx.identifier[1].children)
               ELSE Undefined
  IN IF IsThrow(field) THEN field
     ELSE IF Has(ctx, "range")
     THEN LET r == visitRange(ctx.range[1].children)
              from == GetProp(r, "from")
              to == GetProp(r, "to")
          IN IF IsThrow(r) THEN r
             ELSE IF IsUndefined(r) THEN Throw("TypeError")
             ELSE IF ~Truthy(from)
                  THEN [type |-> FilterTypeLTE, kind |-> "LTE", field |-> field, value |-> to]
             ELSE IF ~Truthy(to)
                  THEN [type |-> FilterTypeGTE, kind |-> "GTE", field |-> field, value |-> from]
             ELSE [type |-> FilterTypeRange, kind |-> "Range", field |-> field,
                   from |-> from, to |-> to]
     ELSE LET value == IF Has(ctx, "term") THEN visitTerm(ctx.term[1].children)
                       ELSE Undefined
          IN IF IsThrow(value) THEN value
             ELSE [type |-> FilterTypeField, kind |-> "Field", field |-> field, value |-> value]

visitCompareStatement(ctx) ==
  LET field == IF Has(ctx, "identifier") THEN visitIdentifier(ctx.identifier[1].children)
               ELSE Undefined
      value == IF Has(ctx, "comparable") THEN visitComparable(ctx.comparable[1].children)
               ELSE Undefined
      node == [type |-> FilterTypeGT, kind |-> "GT", field |-> field, value |-> value]
  IN IF IsThrow(field) THEN field
     ELSE IF Has(ctx, "GT") THEN [node EXCEPT !.type = FilterTypeGT, !.kind = "GT"]
     ELSE IF Has(ctx, "GTE") THEN [node EXCEPT !.type = FilterTypeGTE, !.kind = "GTE"]
     ELSE IF Has(ctx, "LT") THEN [node EXCEPT !.type = FilterTypeLT, !.kind = "LT"]
     ELSE IF Has(ctx, "LTE") THEN [node EXCEPT !.type = FilterTypeLTE, !.kind = "LTE"]
     ELSE node

\* a negation that marks the clause and never clears the mark
toggleExcludeAlwaysSet(node) == SetProp(node, "exclude", TRUE)

\* if (node.exclude) delete node.exclude; else node.exclude = true
toggleExclude(node) ==
  IF "exclude" \in DOMAIN node /\ node.exclude THEN DeleteProp(node, "exclude")
  ELSE SetProp(node, "exclude", TRUE)

RECURSIVE visitStatement(_)
RECURSIVE visitNegativeStatement(_)

visitStatement(ctx) ==
  IF Has(ctx, "negativeStatement") THEN visitNegativeStatement(ctx.negativeStatement[1].children)
  ELSE IF Has(ctx, "fieldStatement") THEN visitFieldStatement(ctx.fieldStatement[1].children)
  ELSE IF Has(ctx, "compareStatement") THEN visitCompareStatement(ctx.compareStatement[1].children)
  ELSE IF Has(ctx, "term")
       THEN (LET value == visitTerm(ctx.term[1].children) IN
             IF IsThrow(value) THEN value
             ELSE [type |-> FilterTypeTerm, kind |-> "Term", value |-> value])
  ELSE Undefined

visitNegativeStatement(ctx) ==
  LET node == IF Has(ctx, "statement") THEN visitStatement(ctx.statement[1].children)
              ELSE Undefined
  IN IF IsThrow(node) THEN node
     ELSE IF IsUndefined(node) THEN Throw("TypeError")
     ELSE toggleExclude(node)

\* the outcome of parse: the value returned, or the exception raised
Value(v) == [threw |-> FALSE, value |-> v]
Raised(e) == [threw |-> TRUE, error |-> e]

\* a resolver that returns the clauses last statement first
visitStatementsReversed(ctx) ==
  IF Has(ctx, "statement")
  THEN LET n == Len(ctx.statement)
           out == [k \in 1 .. n |-> visitStatement(ctx.statement[n + 1 - k].children)]
           bad == {k \in 1 .. n : IsThrow(out[k])}
       IN IF bad = {} THEN Value(out)
          ELSE Raised(out[CHOOSE k \in bad : \A j \in bad : k <= j].error)
  ELSE Value(<<>>)

visitStatements(ctx) ==
  IF Has(ctx, "statement")
  THEN LET out == [k \in 1 .. Len(ctx.statement) |-> visitStatement(ctx.statement[k].children)]
           bad == {k \in 1 .. Len(out) : IsThrow(out[k])}
       IN IF bad = {} THEN Value(out)
          ELSE Raised(out[CHOOSE k \in bad : \A j \in bad : k <= j].error)
  ELSE Value(<<>>)

\* parse(filter), as one function of the text
parse(text) == visitStatements(statements(tokenize(text)).children)

(***************************************************************************)
(* The inputs of the model: every text of up to MaxFragments fragments,    *)
(* every well-formed statement behind up to MaxNeg negation wrappers,      *)
(* every sequence of up to MaxStatements statements, and the statements    *)
(* with a field name that starts with NOT or with a malformed neighbour.   *)
(***************************************************************************)
MaxFragments == 3
MaxNeg == 3
MaxStatements == 3

Fragments ==
  {"NOT", "-", "a", ":", ":>", ":<=", "..", "*", "0", "1", "2020-01-01",
   " ", "\"", "\\", "\t", "."}

RECURSIVE Concats(_, _)
\* the concatenations of at most n elements of parts
Concats(parts, n) ==
  IF n = 0 THEN {""}
  ELSE LET shorter == Concats(parts, n - 1) IN
       shorter \cup {x \o y : x \in shorter, y \in parts}

FreeInputs == Concats(Fragments, MaxFragments)

\* field names the lexer reads as ID, and names it reads as Not or as Term
IdFields == {"f", "g1"}
NotFields == {"NOT", "NOTf"}

\* number and date literals
Comparables == {"0", "0.0", "1", "2.5", "2020-01-01", "2021-06-30T12:00:00Z"}

\* terms: words, literals, a quoted phrase, an escaped colon
TermTexts == {"a", "NOTa", "1", "0.0", "2020-01-01", "\"p q\"", "a\\:b", "x-y"}

\* bare words as field values
BareValues == {"open", "NOTa", "123"}

CompareOpTexts == {":>", ":>=", ":<", ":<="}

FieldTermStatements(fields) == {f \o ":" \o v : f \in fields, v \in TermTexts \cup BareValues}
CompareStatements(fields) == {f \o op \o c : f \in fields, op \in CompareOpTexts, c \in Comparables}
RangeStatements(fields) ==
  {f \o ":" \o a \o ".." \o b : f \in fields, a \in Comparables, b \in Comparables \cup {"*"}}
    \cup {f \o ":*.." \o b : f \in fields, b \in Comparables}

\* the statements of the grammar over the sets above
WFStatements ==
  TermTexts \cup FieldTermStatements(IdFields) \cup CompareStatements(IdFields)
    \cup RangeStatements(IdFields)

WrapperTexts == {"NOT ", "-"}

NegatedInputs == {w \o s : w \in Concats(WrapperTexts, MaxNeg), s \in WFStatements}

\* statements without a space inside, for sequences separated by one space
SeqStatements ==
  {"a", "-b", "NOTa", "\"p\"", "2020-01-01", "f:1", "-f:>=2.5", "g1:<0",
   "f:1..2", "-g1:*..2020-01-01"}

RECURSIVE Joined(_, _)
\* the sequences of 1 to n elements of parts, joined by single spaces
Joined(parts, n) ==
  IF n = 1 THEN parts
  ELSE LET shorter == Joined(parts, n - 1) IN
       shorter \cup {x \o " " \o y : x \in shorter, y \in parts}

SequenceInputs == Joined(SeqStatements, MaxStatements)

NotFieldInputs == FieldTermStatements(NotFields) \cup CompareStatements(NotFields)

\* statements that fit no alternative of the grammar, and the well-formed
\* neighbours they are put between: none of these completes a malformed
\* statement across the space (the lexer skips spaces, so "f: b" is f:b)
MalformedTexts == {":", "..", "f:>", "f:"}
Before == {"", "\"p\" ", "g1:>1 "}
After == {"", " -b", " NOT b"}

MalformedInputs == {x \o m \o y : x \in Before, m \in MalformedTexts, y \in After}

Inputs == FreeInputs \cup NegatedInputs \cup SequenceInputs \cup NotFieldInputs \cup MalformedInputs

\* parse(filter) is called
Init ==
  /\ filter \in Inputs
  /\ pc = "tokenize"
  /\ tokens = <<>>
  /\ cst = Node("statements", NoChildren)
  /\ result = Value(<<>>)

\* const { tokens } = lexer.tokenize(filter)
Tokenize ==
  /\ pc = "tokenize"
  /\ tokens' = tokenize(filter)
  /\ pc' = "parse"
  /\ UNCHANGED <<filter, cst, result>>

\* parser.input = tokens; const cst = parser.statements()
Parse ==
  /\ pc = "parse"
  /\ cst' = statements(tokens)
  /\ pc' = "visit"
  /\ UNCHANGED <<filter, tokens, result>>

\* return visitor.visit(cst)
Visit ==
  /\ pc = "visit"
  /\ result' = visitStatements(cst.children)
  /\ pc' = "done"
  /\ UNCHANGED <<filter, tokens, cst>>

Next == Tokenize \/ Parse \/ Visit

Spec == Init /\ [][Next]_vars

(***************************************************************************)
(* The claims.                                                             *)
(***************************************************************************)
Done == pc = "done"

TermClause(v) == [type |-> FilterTypeTerm, kind |-> "Term", value |-> Str(v)]
FieldClause(f, v) == [type |-> FilterTypeField, kind |-> "Field", field |-> Str(f), value |-> Str(v)]
CompareClause(type, kind, f, v) == [type |-> type, kind |-> kind, field |-> Str(f), value |-> v]
RangeClause(f, from, to) ==
  [type |-> FilterTypeRange, kind |-> "Range", field |-> Str(f), from |-> from, to |-> to]

\* the typed value a number or date literal stands for
Coerce(c) == IF DateLiteralLen(c, 1) = Len(c) THEN NewDate(c) ELSE ToNumber(c)

IsTyped(v) == v.t \in {"number", "date"}

\* C1: for every input, parse returns a clause sequence and never raises an
\* exception.
C1_NeverRaises == Done => ~result.threw

SpecialChars == WhiteSpace \cup {":", ".", "-", "*", "\"", "\\"}

\* a single bare word with no special characters
BareWord(s) == Len(s) > 0 /\ \A i \in 1 .. Len(s) : Char(s, i) \notin SpecialChars

\* C2 as stated: a single bare word with no special characters, the word NOT
\* included, yields exactly one Term clause whose value is the word, with no
\* exclude flag.
C2_BareWordOriginal ==
  (Done /\ BareWord(filter)) => result = Value(<<TermClause(filter)>>)

\* C2 as amended: a single bare word with no special characters other than
\* the keyword NOT itself (words that begin with NOT and words made only of
\* digits included) yields exactly one Term clause whose value is the word,
\* with no exclude flag.
C2_BareWordIsOneTerm ==
  (Done /\ BareWord(filter) /\ filter # "NOT") => result = Value(<<TermClause(filter)>>)

C2_Witness ==
  /\ Done /\ BareWord(filter)
  /\ Len(filter) > 3 /\ SubSeq(filter, 1, 3) = "NOT"
  /\ result = Value(<<TermClause(filter)>>)

RECURSIVE StripWrappers(_)
\* the negation wrappers in front of a text, counted, and the text behind them
StripWrappers(s) ==
  IF LitAt(s, 1, "NOT ")
  THEN (LET r == StripWrappers(SubSeq(s, 5, Len(s))) IN [n |-> r.n + 1, body |-> r.body])
  ELSE IF LitAt(s, 1, "-")
       THEN (LET r == StripWrappers(SubSeq(s, 2, Len(s))) IN [n |-> r.n + 1, body |-> r.body])
  ELSE [n |-> 0, body |-> s]

\* C3: a well-formed statement s behind a chain of n negation wrappers (NOT
\* or -, in any mix) resolves to the clause of s alone with exclude = true
\* when n is odd, and to the clause of s alone, with no exclude flag, when n
\* is even.
C3_NegationParity ==
  LET w == StripWrappers(filter) IN
  (Done /\ w.body \in WFStatements) =>
    LET alone == parse(w.body) IN
    /\ ~alone.threw /\ Len(alone.value) = 1
    /\ "exclude" \notin DOMAIN alone.value[1]
    /\ result = Value(<<IF w.n % 2 = 1 THEN SetProp(alone.value[1], "exclude", TRUE)
                        ELSE alone.value[1]>>)

C3_Witness ==
  LET w == StripWrappers(filter) IN
  /\ Done /\ w.n = 2 /\ w.body \in WFStatements
  /\ LitAt(filter, 1, "NOT -")
  /\ ~result.threw /\ "exclude" \notin DOMAIN result.value[1]

\* C4: for every field f and comparable bounds A and B (0 and 0.0 included),
\* f:A..B yields one Range clause with from = A and to = B, f:A..* one GTE
\* clause with value A, and f:*..B one LTE clause with value B.
C4_RangeShapes ==
  Done => \A f \in IdFields, a \in Comparables :
    /\ \A b \in Comparables :
         filter = f \o ":" \o a \o ".." \o b
           => result = Value(<<RangeClause(f, Coerce(a), Coerce(b))>>)
    /\ filter = f \o ":" \o a \o "..*"
         => result = Value(<<CompareClause(FilterTypeGTE, "GTE", f, Coerce(a))>>)
    /\ filter = f \o ":*.." \o a
         => result = Value(<<CompareClause(FilterTypeLTE, "LTE", f, Coerce(a))>>)

\* C5: for every field name f matching [A-Za-z_][A-Za-z0-9_]* (names that
\* are or begin with NOT included) and every bare-word value v, f:v yields
\* exactly one Field clause with field = f and value = v.
C5_FieldEquality ==
  Done => \A f \in IdFields \cup NotFields, v \in BareValues :
    filter = f \o ":" \o v => result = Value(<<FieldClause(f, v)>>)

OpType(op) ==
  CASE op = ":>" -> FilterTypeGT [] op = ":>=" -> FilterTypeGTE
    [] op = ":<" -> FilterTypeLT [] op = ":<=" -> FilterTypeLTE

OpKind(op) ==
  CASE op = ":>" -> "GT" [] op = ":>=" -> "GTE" [] op = ":<" -> "LT" [] op = ":<=" -> "LTE"

\* C6: for every field f, operator spelling op of :>, :>=, :<, :<= and number
\* or date literal c, f op c yields exactly one Compare clause whose kind
\* and type are those of op, whose field is f and whose value is the typed
\* value of c.
C6_CompareKinds ==
  Done => \A f \in IdFields, op \in CompareOpTexts, c \in Comparables :
    filter = f \o op \o c
      => result = Value(<<CompareClause(OpType(op), OpKind(op), f, Coerce(c))>>)

C6_Witness ==
  /\ Done
  /\ \E f \in IdFields, c \in Comparables : filter = f \o ":<=" \o c
  /\ ~result.threw /\ Len(result.value) = 1 /\ result.value[1].kind = "LTE"

\* the payload of a clause: its value, from and to, where it has them
Payload(clause) == {clause[p] : p \in DOMAIN clause \cap {"value", "from", "to"}}

\* C7: a number or date literal as a bare term or as a field statement's
\* value resolves to its source text, a string; as the operand of a
\* comparison or a bound of a range it resolves to the coerced number or
\* date, never to a string.
C7_LiteralByPosition ==
  Done => \A c \in Comparables :
    /\ filter = c => result = Value(<<TermClause(c)>>)
    /\ \A f \in IdFields :
         /\ filter = f \o ":" \o c => result = Value(<<FieldClause(f, c)>>)
         /\ \A op \in CompareOpTexts :
              filter = f \o op \o c =>
                /\ ~result.threw /\ Len(result.value) = 1
                /\ result.value[1].value = Coerce(c) /\ IsTyped(result.value[1].value)
         /\ \A b \in Comparables :
              filter = f \o ":" \o c \o ".." \o b =>
                /\ ~result.threw /\ Len(result.value) = 1
                /\ \A v \in Payload(result.value[1]) :
                     IsUndefined(v) \/ (IsTyped(v) /\ v \in {Coerce(c), Coerce(b)})

C7_Witness ==
  /\ Done
  /\ \E f \in IdFields : filter = f \o ":0.0"
  /\ result = Value(<<FieldClause(SubSeq(filter, 1, Len(filter) - 4), "0.0")>>)

RECURSIVE SplitAt(_, _, _)
\* the pieces of s from offset i on that single spaces separate, the piece
\* begun at offset start first
SplitAt(s, start, i) ==
  IF i > Len(s) THEN <<SubSeq(s, start, Len(s))>>
  ELSE IF Char(s, i) = " " THEN <<SubSeq(s, start, i - 1)>> \o SplitAt(s, i + 1, i + 1)
  ELSE SplitAt(s, start, i + 1)

RECURSIVE ClausesOf(_)
\* the clauses of the statements of a sequence, each parsed alone, in order
ClausesOf(pieces) ==
  IF pieces = <<>> THEN <<>>
  ELSE parse(Head(pieces)).value \o ClausesOf(Tail(pieces))

\* C8: an input of several statements yields exactly one clause per
\* statement, in the left-to-right order of the statements: the clauses of
\* the statements parsed one by one, concatenated.
C8_StatementOrder ==
  LET pieces == SplitAt(filter, 1, 1) IN
  (Done /\ Len(pieces) >= 2 /\ \A k \in 1 .. Len(pieces) : pieces[k] \in SeqStatements) =>
    /\ result = Value(ClausesOf(pieces))
    /\ Len(result.value) = Len(pieces)

C8_Witness ==
  LET pieces == SplitAt(filter, 1, 1) IN
  /\ Done /\ Len(pieces) = 3 /\ \A k \in 1 .. 3 : pieces[k] \in SeqStatements
  /\ pieces[1] # pieces[2] /\ pieces[2] # pieces[3]
  /\ ~result.threw /\ Len(result.value) = 3
  /\ result.value[1] # result.value[3]

\* whether a clause's tags name one variant and its payload is that variant's
WellShaped(c) ==
  IF ~("kind" \in DOMAIN c /\ "type" \in DOMAIN c) THEN FALSE
  ELSE
  \/ /\ c.kind = "Term" /\ c.type = FilterTypeTerm
     /\ DOMAIN c \ {"exclude"} = {"type", "kind", "value"} /\ c.value.t = "string"
  \/ /\ c.kind = "Field" /\ c.type = FilterTypeField
     /\ DOMAIN c \ {"exclude"} = {"type", "kind", "field", "value"}
     /\ c.field.t = "string" /\ c.value.t = "string"
  \/ /\ <<c.kind, c.type>> \in {<<"GT", FilterTypeGT>>, <<"GTE", FilterTypeGTE>>,
                                <<"LT", FilterTypeLT>>, <<"LTE", FilterTypeLTE>>}
     /\ DOMAIN c \ {"exclude"} = {"type", "kind", "field", "value"}
     /\ c.field.t = "string" /\ IsTyped(c.value)
  \/ /\ c.kind = "Range" /\ c.type = FilterTypeRange
     /\ DOMAIN c \ {"exclude"} = {"type", "kind", "field", "from", "to"}
     /\ c.field.t = "string" /\ IsTyped(c.from) /\ IsTyped(c.to)

\* C9: every clause of every sequence parse returns has a type tag and a
\* kind tag that name the same variant and carries that variant's complete
\* payload: a Term a string value, a Field a string field and value, a
\* Compare a field and a number or date value, a Range both from and to.
C9_ClausesWellShaped ==
  (Done /\ ~result.threw) => \A k \in 1 .. Len(result.value) : WellShaped(result.value[k])

\* C10: a statement that fits no grammar alternative contributes no clause:
\* the output is exactly the clauses of the well-formed statements before
\* and after it.
C10_MalformedDiscarded ==
  Done => \A x \in Before, m \in MalformedTexts, y \in After :
    filter = x \o m \o y => result = Value(parse(x).value \o parse(y).value)

====
